---- MODULE Spec2Model ----
(***************************************************************************)
(* Model of the RESP codec of rust-bootcamp-02-redis: the BulkString, i64  *)
(* and RespNull encoders/decoders working on a per-connection byte buffer  *)
(* (bytes::BytesMut), and the scanner helpers they call.                    *)
(*                                                                         *)
(* Bytes are their numeric values.  Positions (`end`, lengths) are 0-based  *)
(* as in the Rust code; SubSeq calls add 1 where they index a sequence.     *)
(***************************************************************************)
EXTENDS Integers, Sequences, FiniteSets, TLC

VARIABLES buf, wire, sentq, last, partial, peek, hmap, hist, reply

vars == <<buf, wire, sentq, last, partial, peek, hmap, hist, reply>>

\* the state of the command layer: the backend's hash store, the record of
\* the HSet executions so far, and the most recent command's reply
cmdvars == <<hmap, hist, reply>>

(***************************************************************************)
(* Bounds of the model.                                                     *)
(***************************************************************************)
\* longest buffer of arbitrary received bytes (raw byte-stream specification)
MaxBuf == 5
\* scaled width of i64: values range over -2^(IntBits-1) .. 2^(IntBits-1)-1
IntBits == 5
\* scaled width of usize: lengths range over 0 .. 2^WordBits-1
WordBits == 5
\* longest BulkString payload that is sent
MaxData == 2
\* most elements of an array that is sent
MaxElems == 3

(***************************************************************************)
(* Byte values of the characters the wire format uses.                      *)
(***************************************************************************)
CR == 13
LF == 10
DOLLAR == 36
COLON == 58
UNDERSCORE == 95
MINUS == 45
PLUS == 43
STAR == 42
ZERO == 48
REPLACEMENT == 65533

CRLF == <<CR, LF>>

\* resp: const CRLF_LEN (imported by bulk_string.rs and integer.rs)
CRLF_LEN == Len(CRLF)

\* bulk_string.rs: const NULL_BULK_STRING: &[u8] = b"$-1\r\n"
NULL_BULK_STRING == <<DOLLAR, MINUS, ZERO + 1, CR, LF>>

\* null.rs: the literal "_\r\n"
NULL_LITERAL == <<UNDERSCORE, CR, LF>>

I64_MIN == -(2 ^ (IntBits - 1))
I64_MAX == (2 ^ (IntBits - 1)) - 1
USIZE_MAX == (2 ^ WordBits) - 1

(***************************************************************************)
(* Frame values (RespFrame variants).  Every value has the same fields so   *)
(* that values of different variants can be compared.                       *)
(***************************************************************************)
BulkStringV(bytes) == [t |-> "BulkString", b |-> bytes, i |-> 0, a |-> <<>>]
IntegerV(n) == [t |-> "Integer", b |-> <<>>, i |-> n, a |-> <<>>]
RespNullV == [t |-> "Null", b |-> <<>>, i |-> 0, a |-> <<>>]
RespArrayV(items) == [t |-> "Array", b |-> <<>>, i |-> 0, a |-> items]
RespNullArrayV == [t |-> "NullArray", b |-> <<>>, i |-> 0, a |-> <<>>]
NoFrame == [t |-> "None", b |-> <<>>, i |-> 0, a |-> <<>>]

(***************************************************************************)
(* Result<_, RespError> of a decode call together with the buffer it        *)
(* leaves.  A panic is a third outcome.                                     *)
(***************************************************************************)
Ok(v, b) == [kind |-> "Ok", err |-> "", val |-> v, buf |-> b]
Err(e, b) == [kind |-> "Err", err |-> e, val |-> NoFrame, buf |-> b]
Panic(b) == [kind |-> "Panic", err |-> "", val |-> NoFrame, buf |-> b]

(***************************************************************************)
(* bytes / slices                                                           *)
(***************************************************************************)
\* <[u8]>::starts_with
starts_with(b, p) == Len(b) >= Len(p) /\ SubSeq(b, 1, Len(p)) = p

\* Buf::advance(n): drop the first n bytes
advance(b, n) == SubSeq(b, n + 1, Len(b))

\* BytesMut::split_to(n): the first n bytes (the buffer keeps advance(b, n))
split_to(b, n) == SubSeq(b, 1, n)

\* String::from_utf8_lossy on the bytes of the model: a byte that is not
\* ASCII becomes U+FFFD
from_utf8_lossy(b) == [k \in DOMAIN b |-> IF b[k] >= 128 THEN REPLACEMENT ELSE b[k]]

IsDigit(c) == c >= ZERO /\ c <= ZERO + 9

(***************************************************************************)
(* format!("{}", n) for an integer: decimal, '-' for negatives, no '+'.     *)
(***************************************************************************)
RECURSIVE fmt_unsigned(_)
fmt_unsigned(n) ==
    IF n < 10 THEN <<ZERO + n>>
    ELSE fmt_unsigned(n \div 10) \o <<ZERO + (n % 10)>>

fmt_display(n) == IF n < 0 THEN <<MINUS>> \o fmt_unsigned(-n) ELSE fmt_unsigned(n)

(***************************************************************************)
(* str::parse::<integer>() (core::num from_str_radix, radix 10): an         *)
(* optional sign, then one or more digits, with overflow checked against    *)
(* the type's range.  lo..hi is the range; a '-' is a sign only for a       *)
(* signed type (lo < 0).                                                    *)
(***************************************************************************)
RECURSIVE parse_digits(_, _, _)
parse_digits(ds, acc, limit) ==
    IF ds = <<>> THEN [ok |-> TRUE, val |-> acc]
    ELSE IF ~IsDigit(Head(ds)) THEN [ok |-> FALSE, val |-> 0]
    ELSE LET a == acc * 10 + (Head(ds) - ZERO)
         IN  IF a > limit THEN [ok |-> FALSE, val |-> 0]
             ELSE parse_digits(Tail(ds), a, limit)

str_parse(s, lo, hi) ==
    IF s = <<>> THEN [ok |-> FALSE, val |-> 0]
    ELSE IF Head(s) = MINUS /\ lo < 0
         THEN IF Len(s) = 1 THEN [ok |-> FALSE, val |-> 0]
              ELSE LET m == parse_digits(Tail(s), 0, -lo)
                   IN  [ok |-> m.ok, val |-> -m.val]
    ELSE IF Head(s) = PLUS
         THEN IF Len(s) = 1 THEN [ok |-> FALSE, val |-> 0]
              ELSE parse_digits(Tail(s), 0, hi)
    ELSE parse_digits(s, 0, hi)

(***************************************************************************)
(* Length/token scanner (resp module helpers used by the codecs).  Their    *)
(* bodies follow the scanner contract of the specification (section 4.1);   *)
(* the callers in bulk_string.rs, integer.rs and null.rs fix their          *)
(* signatures: the two that take &[u8] cannot change the buffer.            *)
(***************************************************************************)
ISIZE_MIN == -(2 ^ (WordBits - 1))

\* find_terminator(buffer, start): position of the first CR LF at or after
\* `start`, or -1 when the terminator is not in the buffer
find_crlf(b, start) ==
    LET hits == {p \in start .. (Len(b) - 2) : b[p + 1] = CR /\ b[p + 2] = LF}
    IN  IF hits = {} THEN -1
        ELSE CHOOSE p \in hits : \A q \in hits : p <= q

\* verifies the prefix and locates the terminator: end, NotComplete or
\* InvalidFrameType
extract_simple_frame_data(b, prefix) ==
    IF Len(b) < Len(prefix) THEN [err |-> "NotComplete", end |-> 0]
    ELSE IF ~starts_with(b, prefix) THEN [err |-> "InvalidFrameType", end |-> 0]
    ELSE LET e == find_crlf(b, Len(prefix))
         IN  IF e < 0 THEN [err |-> "NotComplete", end |-> 0]
             ELSE [err |-> "", end |-> e]

\* parse_length with the length parsed as an unsigned number: a negative
\* length is then a parse failure (used to test C7)
parse_length_Unsigned(b, prefix) ==
    LET r == extract_simple_frame_data(b, prefix)
    IN  IF r.err # "" THEN [err |-> r.err, end |-> 0, len |-> 0]
        ELSE LET s == from_utf8_lossy(SubSeq(b, Len(prefix) + 1, r.end))
                 n == str_parse(s, 0, USIZE_MAX)
             IN  IF ~n.ok THEN [err |-> "InvalidFrame", end |-> 0, len |-> 0]
                 ELSE [err |-> "", end |-> r.end, len |-> n.val]

\* parse_prefixed_length(buffer, prefix) -> (terminator_position, length):
\* a parse failure is InvalidFrame, a negative length InvalidFrameLength.
\* The length is a usize for the callers, so every decimal up to USIZE_MAX
\* is a length, and the null sentinel is matched by the caller before the
\* length is parsed (bulk_string.rs line 36).
parse_length(b, prefix) ==
    LET r == extract_simple_frame_data(b, prefix)
    IN  IF r.err # "" THEN [err |-> r.err, end |-> 0, len |-> 0]
        ELSE LET s == from_utf8_lossy(SubSeq(b, Len(prefix) + 1, r.end))
                 n == str_parse(s, ISIZE_MIN, USIZE_MAX)
             IN  IF ~n.ok THEN [err |-> "InvalidFrame", end |-> 0, len |-> 0]
                 ELSE IF n.val < 0
                      THEN [err |-> "InvalidFrameLength", end |-> 0, len |-> 0]
                 ELSE [err |-> "", end |-> r.end, len |-> n.val]

\* match_fixed_token comparing before it looks at the length (used to test
\* C11)
extract_fixed_data_CompareFirst(b, expect) ==
    IF ~starts_with(b, expect) THEN [err |-> "InvalidFrameType", buf |-> b]
    ELSE [err |-> "", buf |-> advance(b, Len(expect))]

\* match_fixed_token(buffer, literal): NotComplete when the buffer is
\* shorter than the literal, InvalidFrameType when it differs, otherwise the
\* literal is consumed
extract_fixed_data(b, expect) ==
    IF Len(b) < Len(expect) THEN [err |-> "NotComplete", buf |-> b]
    ELSE IF ~starts_with(b, expect) THEN [err |-> "InvalidFrameType", buf |-> b]
    ELSE [err |-> "", buf |-> advance(b, Len(expect))]

(***************************************************************************)
(* BulkString (bulk_string.rs)                                              *)
(***************************************************************************)
BULK_PREFIX == <<DOLLAR>>

\* BulkString::encode without the final terminator (used to test C3)
BulkString_encode_NoTrailer(v) ==
    IF v.b = <<>> THEN NULL_BULK_STRING
    ELSE <<DOLLAR>> \o fmt_display(Len(v.b)) \o CRLF \o v.b

\* BulkString::encode writing the length of the data and its terminator
\* (used to test C16)
BulkString_encode_CountsTerminator(v) ==
    IF v.b = <<>> THEN NULL_BULK_STRING
    ELSE <<DOLLAR>> \o fmt_display(Len(v.b) + CRLF_LEN) \o CRLF \o v.b \o CRLF

BulkString_encode(v) ==
    IF v.b = <<>> THEN NULL_BULK_STRING
    ELSE <<DOLLAR>> \o fmt_display(Len(v.b)) \o CRLF \o v.b \o CRLF

\* BulkString::decode advancing past the length line before it knows that
\* the data has arrived (used to test C1)
BulkString_decode_EarlyAdvance(b, build) ==
    IF starts_with(b, NULL_BULK_STRING)
    THEN Ok(BulkStringV(<<>>), advance(b, Len(NULL_BULK_STRING)))
    ELSE LET r == parse_length(b, BULK_PREFIX)
         IN  IF r.err # "" THEN Err(r.err, b)
             ELSE LET b1 == advance(b, r.end + CRLF_LEN)
                      need == r.len + CRLF_LEN
                  IN  IF Len(b1) < need THEN Err("NotComplete", b1)
                      ELSE Ok(BulkStringV(SubSeq(b1, 1, r.len)), advance(b1, need))

\* BulkString::decode comparing the remaining bytes with len instead of
\* len + CRLF_LEN (used to test C2)
BulkString_decode_ShortCheck(b, build) ==
    IF starts_with(b, NULL_BULK_STRING)
    THEN Ok(BulkStringV(<<>>), advance(b, Len(NULL_BULK_STRING)))
    ELSE LET r == parse_length(b, BULK_PREFIX)
         IN  IF r.err # "" THEN Err(r.err, b)
             ELSE LET b1 == advance(b, r.end + CRLF_LEN)
                      take == IF Len(b1) < r.len + CRLF_LEN THEN Len(b1)
                              ELSE r.len + CRLF_LEN
                  IN  IF Len(b1) < r.len THEN Err("NotComplete", b)
                      ELSE Ok(BulkStringV(SubSeq(b1, 1, r.len)), advance(b1, take))

\* `build` is "debug" (an overflowing usize addition panics) or "release"
\* (it wraps)
BulkString_decode(b, build) ==
    IF starts_with(b, NULL_BULK_STRING)
    THEN Ok(BulkStringV(<<>>), advance(b, Len(NULL_BULK_STRING)))
    ELSE LET r == parse_length(b, BULK_PREFIX)
         IN  IF r.err # "" THEN Err(r.err, b)
             ELSE LET end == r.end
                      len == r.len
                      remained == advance(b, end + CRLF_LEN)
                      sum == len + CRLF_LEN
                      need == sum % (USIZE_MAX + 1)
                  IN  IF sum > USIZE_MAX /\ build = "debug" THEN Panic(b)
                      ELSE IF Len(remained) < need THEN Err("NotComplete", b)
                      ELSE LET b1 == advance(b, end + CRLF_LEN)
                               data == split_to(b1, need)
                               b2 == advance(b1, need)
                           IN  IF len > Len(data) THEN Panic(b2)
                               ELSE Ok(BulkStringV(SubSeq(data, 1, len)), b2)

\* results of expect_length: a byte count, an error or a panic
LenOk(n) == [kind |-> "Ok", err |-> "", n |-> n]
LenErr(e) == [kind |-> "Err", err |-> e, n |-> 0]
LenPanic == [kind |-> "Panic", err |-> "", n |-> 0]

BulkString_expect_length(b, build) ==
    LET r == parse_length(b, BULK_PREFIX)
    IN  IF r.err # "" THEN LenErr(r.err)
        ELSE LET end == r.end
                 len == r.len
                 sum == end + CRLF_LEN + len + CRLF_LEN
             IN  IF len > Len(b) THEN LenErr("NotComplete")
                 ELSE IF sum > USIZE_MAX /\ build = "debug" THEN LenPanic
                 ELSE LenOk(sum % (USIZE_MAX + 1))

(***************************************************************************)
(* i64 (integer.rs)                                                         *)
(***************************************************************************)
INT_PREFIX == <<COLON>>

i64_encode(v) == <<COLON>> \o fmt_display(v.i) \o CRLF

\* i64::decode leaving the terminator in the buffer (used to test C5)
i64_decode_KeepsTerminator(b) ==
    LET r == extract_simple_frame_data(b, INT_PREFIX)
    IN  IF r.err # "" THEN Err(r.err, b)
        ELSE LET s == from_utf8_lossy(SubSeq(b, Len(INT_PREFIX) + 1, r.end))
                 n == str_parse(s, I64_MIN, I64_MAX)
             IN  IF n.ok THEN Ok(IntegerV(n.val), advance(b, r.end))
                 ELSE Err("ParseIntError", advance(b, r.end))

\* i64::decode parsing the body as an unsigned number (used to test C9)
i64_decode_Unsigned(b) ==
    LET r == extract_simple_frame_data(b, INT_PREFIX)
    IN  IF r.err # "" THEN Err(r.err, b)
        ELSE LET rest == advance(b, r.end + CRLF_LEN)
                 s == from_utf8_lossy(SubSeq(b, Len(INT_PREFIX) + 1, r.end))
                 n == str_parse(s, 0, I64_MAX)
             IN  IF n.ok THEN Ok(IntegerV(n.val), rest)
                 ELSE Err("ParseIntError", rest)

\* i64::decode taking an empty body for 0 (used to test C10)
i64_decode_EmptyIsZero(b) ==
    LET r == extract_simple_frame_data(b, INT_PREFIX)
    IN  IF r.err # "" THEN Err(r.err, b)
        ELSE LET rest == advance(b, r.end + CRLF_LEN)
                 s == from_utf8_lossy(SubSeq(b, Len(INT_PREFIX) + 1, r.end))
                 n == str_parse(s, I64_MIN, I64_MAX)
             IN  IF s = <<>> THEN Ok(IntegerV(0), rest)
                 ELSE IF n.ok THEN Ok(IntegerV(n.val), rest)
                 ELSE Err("ParseIntError", rest)

i64_decode(b) ==
    LET r == extract_simple_frame_data(b, INT_PREFIX)
    IN  IF r.err # "" THEN Err(r.err, b)
        ELSE LET end == r.end
                 data == split_to(b, end + CRLF_LEN)
                 rest == advance(b, end + CRLF_LEN)
                 s == from_utf8_lossy(SubSeq(data, Len(INT_PREFIX) + 1, end))
                 n == str_parse(s, I64_MIN, I64_MAX)
             IN  IF n.ok THEN Ok(IntegerV(n.val), rest)
                 ELSE Err("ParseIntError", rest)

i64_expect_length(b) ==
    LET r == extract_simple_frame_data(b, INT_PREFIX)
    IN  IF r.err # "" THEN LenErr(r.err)
        ELSE LenOk(r.end + CRLF_LEN)

(***************************************************************************)
(* RespNull (null.rs)                                                       *)
(***************************************************************************)
RespNull_encode(v) == NULL_LITERAL

RespNull_decode(b) ==
    LET r == extract_fixed_data(b, NULL_LITERAL)
    IN  IF r.err # "" THEN Err(r.err, r.buf)
        ELSE Ok(RespNullV, r.buf)

RespNull_expect_length(b) == LenOk(3)

(***************************************************************************)
(* The connection: `wire` holds bytes a peer has written that have not      *)
(* arrived yet, `buf` is the connection's receive buffer, `sentq` lists the *)
(* frames whose bytes are in wire/buf and are not decoded yet, `last`       *)
(* records the most recent decode call, `partial` tells that a decode of    *)
(* the frame at the head of sentq has returned NotComplete.                 *)
(***************************************************************************)
NoEntry == [v |-> NoFrame, enc |-> <<>>]

LastNone ==
    [call |-> "none", build |-> "", pre |-> <<>>, kind |-> "", err |-> "",
     val |-> NoFrame, exp |-> NoEntry, retry |-> FALSE]

\* the codec a caller uses for a frame of variant t
\* no expect_length call has looked at the buffer since it last grew
PeekNone == [call |-> "none", pre |-> <<>>, kind |-> "", err |-> "", n |-> 0]

\* no command has been executed or parsed yet
ReplyNone == [cmd |-> "none", key |-> <<>>, fields |-> <<>>, sort |-> FALSE,
              arg |-> NoFrame, pre |-> <<>>, kind |-> "", err |-> "",
              val |-> NoFrame]

CodecOf(t) ==
    CASE t = "BulkString" -> "BulkString"
      [] t = "Integer" -> "i64"
      [] t = "Null" -> "RespNull"
      [] t = "Array" -> "RespArray"
      [] OTHER -> "none"

Builds == {"debug", "release"}

\* bytes an arbitrary peer may send
Alphabet == {DOLLAR, COLON, UNDERSCORE, MINUS, ZERO, ZERO + 1, ZERO + 2, CR, LF}

Init ==
    /\ buf = <<>>
    /\ wire = <<>>
    /\ sentq = <<>>
    /\ last = LastNone
    /\ partial = FALSE
    /\ peek = PeekNone
    /\ hmap = <<>>
    /\ hist = <<>>
    /\ reply = ReplyNone

\* the network layer appends one received byte to the buffer
Recv(c) ==
    /\ Len(buf) < MaxBuf
    /\ buf' = Append(buf, c)
    /\ last' = LastNone
    /\ peek' = PeekNone
    /\ UNCHANGED <<wire, sentq, partial>>
    /\ UNCHANGED cmdvars

\* one decode call on the connection's buffer; r is the call's outcome
Decoded(codec, build, r) ==
    LET head == IF sentq = <<>> THEN NoEntry ELSE Head(sentq)
    IN  /\ buf' = r.buf
        /\ last' = [call |-> codec, build |-> build, pre |-> buf, kind |-> r.kind,
                    err |-> r.err, val |-> r.val, exp |-> head, retry |-> partial]
        /\ sentq' = IF r.kind = "Ok" /\ sentq # <<>> THEN Tail(sentq) ELSE sentq
        /\ partial' = IF r.kind = "Ok" THEN FALSE
                      ELSE IF r.err = "NotComplete" /\ codec = CodecOf(head.v.t)
                           THEN TRUE
                      ELSE partial
        /\ UNCHANGED <<wire, peek>>
        /\ UNCHANGED cmdvars

DecodeBulkString ==
    \E build \in Builds : Decoded("BulkString", build, BulkString_decode(buf, build))

DecodeInteger == Decoded("i64", "", i64_decode(buf))

DecodeNull == Decoded("RespNull", "", RespNull_decode(buf))

Next ==
    \/ \E c \in Alphabet : Recv(c)
    \/ DecodeBulkString
    \/ DecodeInteger
    \/ DecodeNull

Spec == Init /\ [][Next]_vars

(***************************************************************************)
(* The frame stream: a peer writes whole frames, the network delivers them  *)
(* byte by byte, and the connection may try a decode after any byte.        *)
(***************************************************************************)
\* RespFrame::encode (enum_dispatch over the variants)
RespFrame_encode(v) ==
    CASE v.t = "BulkString" -> BulkString_encode(v)
      [] v.t = "Integer" -> i64_encode(v)
      [] v.t = "Null" -> RespNull_encode(v)

\* payload bytes of the bulk strings that are sent: CR, LF and a letter
DataAlphabet == {CR, LF, 97}

Payloads == UNION {[1 .. n -> DataAlphabet] : n \in 0 .. MaxData}

\* a payload whose length takes two decimal digits
LongPayload == [k \in 1 .. 10 |-> 97]

BulkValues == {BulkStringV(d) : d \in Payloads \cup {LongPayload}}

IntValues == {IntegerV(n) : n \in I64_MIN .. I64_MAX}

Values == BulkValues \cup IntValues \cup {RespNullV}

Entry(v) == [v |-> v, enc |-> RespFrame_encode(v)]

\* wire forms the grammar allows that this encoder does not write: an
\* explicit sign on an integer and a bulk string of declared length 0
SignedForms ==
    {[v |-> IntegerV(n), enc |-> <<COLON, PLUS>> \o fmt_unsigned(n) \o CRLF] :
        n \in 0 .. I64_MAX}
    \cup {[v |-> IntegerV(0), enc |-> <<COLON, MINUS, ZERO>> \o CRLF]}

EMPTY_BULK_WIRE == <<DOLLAR, ZERO>> \o CRLF \o CRLF

PeerForms == SignedForms \cup {[v |-> BulkStringV(<<>>), enc |-> EMPTY_BULK_WIRE]}

Entries == {Entry(v) : v \in Values} \cup PeerForms

\* the frames that are written behind a frame still in flight
Followers ==
    { Entry(BulkStringV(<<>>)), Entry(BulkStringV(<<CR, LF>>)), Entry(BulkStringV(<<97>>)),
      Entry(IntegerV(I64_MIN)), Entry(IntegerV(0)), Entry(IntegerV(I64_MAX)),
      Entry(RespNullV) }

\* a peer writes one frame; at most two frames are in flight
Send(e) ==
    /\ \/ sentq = <<>>
       \/ Len(sentq) = 1 /\ e \in Followers
    /\ wire' = wire \o e.enc
    /\ sentq' = Append(sentq, e)
    /\ last' = LastNone
    /\ UNCHANGED <<buf, partial, peek>>
    /\ UNCHANGED cmdvars

\* the network layer appends the next received byte to the buffer
Deliver ==
    /\ wire # <<>>
    /\ buf' = Append(buf, Head(wire))
    /\ wire' = Tail(wire)
    /\ last' = LastNone
    /\ peek' = PeekNone
    /\ UNCHANGED <<sentq, partial>>
    /\ UNCHANGED cmdvars

NextStream ==
    \/ \E e \in Entries : Send(e)
    \/ Deliver
    \/ DecodeBulkString
    \/ DecodeInteger
    \/ DecodeNull

SpecStream == Init /\ [][NextStream]_vars

(***************************************************************************)
(* The length probe: a peer writes the first line of a frame and then any   *)
(* bytes; the connection may ask expect_length how long the frame at the    *)
(* front of the buffer is, and may try a decode, after any byte.            *)
(***************************************************************************)
\* lengths a bulk-string header declares: small ones and the two largest
\* machine-word values
DeclaredLengths == (0 .. MaxData) \cup {USIZE_MAX - 1, USIZE_MAX}

Heads ==
    {<<DOLLAR>> \o fmt_display(n) \o CRLF : n \in DeclaredLengths}
        \cup {NULL_BULK_STRING, NULL_LITERAL}
        \cup {i64_encode(IntegerV(n)) : n \in {-1, 0, I64_MAX}}

\* the longest frame whose bytes the probe lets arrive
LongestFrame == Len(BulkString_encode(BulkStringV([k \in 1 .. MaxData |-> 97])))

\* the peer writes the first line of a frame into the empty buffer
SendHead(h) ==
    /\ buf = <<>>
    /\ buf' = h
    /\ last' = LastNone
    /\ peek' = PeekNone
    /\ UNCHANGED <<wire, sentq, partial>>
    /\ UNCHANGED cmdvars

\* one more byte arrives after it
RecvBody(c) ==
    /\ buf # <<>>
    /\ Len(buf) < LongestFrame
    /\ buf' = Append(buf, c)
    /\ last' = LastNone
    /\ peek' = PeekNone
    /\ UNCHANGED <<wire, sentq, partial>>
    /\ UNCHANGED cmdvars

\* one expect_length call on the buffer's bytes; it takes &[u8] and leaves
\* the buffer alone
Peeked(codec, build, r) ==
    /\ peek' = [call |-> codec, pre |-> buf, kind |-> r.kind, err |-> r.err, n |-> r.n]
    /\ UNCHANGED <<buf, wire, sentq, last, partial>>
    /\ UNCHANGED cmdvars

ExpectLengthBulkString ==
    \E build \in Builds :
        Peeked("BulkString", build, BulkString_expect_length(buf, build))

ExpectLengthInteger == Peeked("i64", "", i64_expect_length(buf))

ExpectLengthNull == Peeked("RespNull", "", RespNull_expect_length(buf))

NextLength ==
    \/ \E h \in Heads : SendHead(h)
    \/ \E c \in DataAlphabet : RecvBody(c)
    \/ ExpectLengthBulkString
    \/ ExpectLengthInteger
    \/ ExpectLengthNull
    \/ DecodeBulkString
    \/ DecodeInteger
    \/ DecodeNull

SpecLength == Init /\ [][NextLength]_vars

(***************************************************************************)
(* Properties of the byte-stream specification Spec.                        *)
(***************************************************************************)
Codecs == {"BulkString", "i64", "RespNull"}

\* the bytes of `b` before its first CR LF and after its first byte, when b
\* holds a CR LF after its first byte
HasBody(b, body) ==
    \E k \in 1 .. (Len(b) - 2) :
        /\ body = SubSeq(b, 2, k)
        /\ SubSeq(b, k + 1, k + 2) = CRLF
        /\ \A j \in 1 .. (k - 1) : SubSeq(b, j + 1, j + 2) # CRLF

AllDigits(ds) == ds # <<>> /\ \A k \in DOMAIN ds : IsDigit(ds[k])

\* the decimal value of a run of digits
RECURSIVE DigitsValue(_)
DigitsValue(ds) ==
    IF ds = <<>> THEN 0
    ELSE DigitsValue(SubSeq(ds, 1, Len(ds) - 1)) * 10 + (ds[Len(ds)] - ZERO)

\* an optional sign followed by one or more digits
IsNumeric(body) ==
    /\ body # <<>>
    /\ IF Head(body) \in {PLUS, MINUS} THEN AllDigits(Tail(body)) ELSE AllDigits(body)

\* C1: whenever BulkString, i64 or RespNull decode returns NotComplete the
\* buffer holds exactly the bytes it held before the call.
C1_NotCompleteKeepsBuffer ==
    (last.call \in Codecs /\ last.kind = "Err" /\ last.err = "NotComplete")
        => buf = last.pre

\* C1 witness: BulkString decode found the length but too few data bytes.
C1_Witness ==
    /\ last.call = "BulkString"
    /\ last.err = "NotComplete"
    /\ last.pre = <<DOLLAR, ZERO + 1, CR, LF, ZERO + 2>>
    /\ buf = last.pre

\* C6: whenever BulkString, i64 or RespNull decode returns an error of any
\* kind the buffer is the same as before the call.
C6_ErrorKeepsBuffer ==
    (last.call \in Codecs /\ last.kind = "Err") => buf = last.pre

\* C7: a bulk string whose length field is a negative machine integer other
\* than the null sentinel -1 is rejected with InvalidFrameLength.
C7_NegativeLengthRejected ==
    \A body \in {SubSeq(last.pre, 2, k) : k \in 2 .. Len(last.pre)} :
        ( /\ last.call = "BulkString"
          /\ starts_with(last.pre, BULK_PREFIX)
          /\ HasBody(last.pre, body)
          /\ Head(body) = MINUS
          /\ AllDigits(Tail(body))
          /\ DigitsValue(Tail(body)) > 1
          /\ DigitsValue(Tail(body)) <= -ISIZE_MIN )
        => (last.kind = "Err" /\ last.err = "InvalidFrameLength" /\ buf = last.pre)

\* C7 witness: BulkString decode was called on "$-2\r\n".
C7_Witness ==
    /\ last.call = "BulkString"
    /\ last.pre = <<DOLLAR, MINUS, ZERO + 2, CR, LF>>
    /\ last.err = "InvalidFrameLength"

\* C10 (as claimed): an integer frame terminated by CR LF whose body is
\* empty or not numeric is rejected with InvalidFrame.
C10_BadIntegerIsInvalidFrame ==
    \A body \in {SubSeq(last.pre, 2, k) : k \in 1 .. Len(last.pre)} :
        ( /\ last.call = "i64"
          /\ starts_with(last.pre, INT_PREFIX)
          /\ HasBody(last.pre, body)
          /\ ~IsNumeric(body) )
        => (last.kind = "Err" /\ last.err = "InvalidFrame")

\* C10 (amended): an integer frame terminated by CR LF whose body is empty
\* or not numeric is rejected with the ParseIntError kind.
C10_BadIntegerIsParseIntError ==
    \A body \in {SubSeq(last.pre, 2, k) : k \in 1 .. Len(last.pre)} :
        ( /\ last.call = "i64"
          /\ starts_with(last.pre, INT_PREFIX)
          /\ HasBody(last.pre, body)
          /\ ~IsNumeric(body) )
        => (last.kind = "Err" /\ last.err = "ParseIntError")

\* C10 witness: i64 decode was called on ":\r\n" (an empty body).
C10_Witness ==
    /\ last.call = "i64"
    /\ last.pre = <<COLON, CR, LF>>
    /\ last.err = "ParseIntError"

\* C11: Null decode has exactly three outcomes: NotComplete on a buffer
\* shorter than the 3-byte literal "_\r\n", InvalidFrameType on a buffer of
\* at least 3 bytes that does not begin with the literal, and Null with
\* exactly the 3 bytes of the literal consumed on a buffer that begins
\* with it.
C11_NullThreeOutcomes ==
    last.call = "RespNull" =>
        /\ Len(last.pre) < Len(NULL_LITERAL)
             => (last.kind = "Err" /\ last.err = "NotComplete")
        /\ (Len(last.pre) >= Len(NULL_LITERAL) /\ ~starts_with(last.pre, NULL_LITERAL))
             => (last.kind = "Err" /\ last.err = "InvalidFrameType")
        /\ starts_with(last.pre, NULL_LITERAL)
             => /\ last.kind = "Ok"
                /\ last.val = RespNullV
                /\ Len(NULL_LITERAL) = 3
                /\ buf = SubSeq(last.pre, 4, Len(last.pre))

\* C11 witness: Null decode consumed the literal of "_\r\n_" and left the
\* byte after it.
C11_Witness ==
    /\ last.call = "RespNull"
    /\ last.pre = <<UNDERSCORE, CR, LF, UNDERSCORE>>
    /\ last.kind = "Ok"
    /\ buf = <<UNDERSCORE>>

(***************************************************************************)
(* Properties of the frame-stream specification SpecStream.                 *)
(***************************************************************************)
RECURSIVE Flatten(_)
Flatten(q) == IF q = <<>> THEN <<>> ELSE Head(q).enc \o Flatten(Tail(q))

IsPrefix(p, b) == Len(p) <= Len(b) /\ SubSeq(b, 1, Len(p)) = p

\* the last call used the codec of the frame at the head of the stream, and
\* that frame was written by this encoder
CanonicalCall ==
    /\ last.call \in Codecs
    /\ last.call = CodecOf(last.exp.v.t)
    /\ last.exp.enc = RespFrame_encode(last.exp.v)

\* C2: decode on a buffer holding a proper, non-empty prefix of an encoded
\* frame returns NotComplete and keeps the buffer; once the remainder has
\* arrived in that buffer, decode returns the original value and has
\* consumed exactly the length of the encoding.
C2_IncrementalDecode ==
    CanonicalCall =>
        /\ ( /\ last.pre # <<>>
             /\ Len(last.pre) < Len(last.exp.enc)
             /\ IsPrefix(last.pre, last.exp.enc) )
           => (last.kind = "Err" /\ last.err = "NotComplete" /\ buf = last.pre)
        /\ (last.retry /\ IsPrefix(last.exp.enc, last.pre))
           => ( /\ last.kind = "Ok"
                /\ last.val = last.exp.v
                /\ Len(last.pre) - Len(buf) = Len(last.exp.enc) )

\* C2 witness: a bulk string with CR LF in its payload was decoded after an
\* earlier attempt on a prefix of it returned NotComplete.
C2_Witness ==
    /\ CanonicalCall
    /\ last.retry
    /\ last.kind = "Ok"
    /\ last.val = BulkStringV(<<CR, LF>>)

\* C3: decode(encode(v)) returns v and consumes the whole encoding.
C3_RoundTrip ==
    (CanonicalCall /\ last.pre = last.exp.enc)
        => (last.kind = "Ok" /\ last.val = last.exp.v /\ buf = <<>>)

\* C3 witness: the encoding of the least integer was decoded.
C3_Witness ==
    /\ CanonicalCall
    /\ last.pre = last.exp.enc
    /\ last.kind = "Ok"
    /\ last.val = IntegerV(I64_MIN)

\* the value BulkString decode returns on the bytes b
BulkDecoded(b) == BulkString_decode(b, "release").val

\* C4: the encoder writes an empty bulk string differently from
\* the null form, and "$0\r\n\r\n" and "$-1\r\n" decode to unequal values.
C4_EmptyAndNullDistinct ==
    /\ \A k \in DOMAIN sentq :
           (sentq[k] = Entry(BulkStringV(<<>>))) => sentq[k].enc # NULL_BULK_STRING
    /\ (last.call = "BulkString" /\ last.kind = "Ok" /\ last.pre = EMPTY_BULK_WIRE)
           => last.val # BulkDecoded(NULL_BULK_STRING)

\* C5: a successful decode removes exactly the bytes of the frame at the
\* front of the buffer, returns that frame and leaves the bytes behind it
\* unchanged; the buffer and the bytes still to arrive are always the
\* encodings of the frames not yet decoded, in the order they were written.
C5_ConsumesOneFrame ==
    /\ buf \o wire = Flatten(sentq)
    /\ (last.call \in Codecs /\ last.kind = "Ok")
           => ( /\ last.exp # NoEntry
                /\ last.pre = last.exp.enc \o buf
                /\ last.val = last.exp.v )

\* C5 witness: the null bulk string was decoded with the whole next frame
\* behind it in the buffer.
C5_Witness ==
    /\ last.call = "BulkString"
    /\ last.kind = "Ok"
    /\ last.exp.enc = NULL_BULK_STRING
    /\ Len(last.pre) - Len(buf) = 5
    /\ sentq = <<Entry(IntegerV(I64_MIN))>>
    /\ buf = i64_encode(IntegerV(I64_MIN))

\* C9: an integer frame whose body is digits of a magnitude n in range,
\* with no sign or a '+', decodes to n, and with a '-' decodes to -n; the
\* encoder never writes a '+'.
C9_OptionalSign ==
    /\ \A body \in {SubSeq(last.pre, 2, k) : k \in 2 .. Len(last.pre)} :
           LET ds == IF Head(body) \in {PLUS, MINUS} THEN Tail(body) ELSE body
           IN  ( /\ last.call = "i64"
                 /\ starts_with(last.pre, INT_PREFIX)
                 /\ HasBody(last.pre, body)
                 /\ AllDigits(ds)
                 /\ DigitsValue(ds) <= I64_MAX )
               => ( /\ last.kind = "Ok"
                    /\ last.val.t = "Integer"
                    /\ last.val.i = IF Head(body) = MINUS THEN -DigitsValue(ds)
                                    ELSE DigitsValue(ds) )
    /\ \A k \in DOMAIN sentq :
           sentq[k].v.t = "Integer"
               => \A j \in DOMAIN i64_encode(sentq[k].v) : i64_encode(sentq[k].v)[j] # PLUS

\* C9 witness: ":+15\r\n"-style input (an explicit plus sign on a two-digit
\* magnitude) was decoded while an encoded negative integer is in flight.
C9_Witness ==
    /\ last.call = "i64"
    /\ last.kind = "Ok"
    /\ SubSeq(last.pre, 1, 2) = <<COLON, PLUS>>
    /\ last.val.i >= 10
    /\ sentq = <<Entry(IntegerV(I64_MIN))>>

\* C16: encoding a BulkString gives "$-1\r\n" exactly when its byte
\* sequence is empty, and otherwise "$<len>\r\n<data>\r\n" with <len> the
\* decimal number of data bytes; a zero-length byte sequence is written
\* identically to the null bulk string.  (The frames of PeerForms are wire
\* forms of other writers, not output of this encoder.)
C16_EncodeForm ==
    \A k \in DOMAIN sentq :
        LET e == sentq[k]
        IN  (e.v.t = "BulkString" /\ e \notin PeerForms) =>
                /\ e.enc = NULL_BULK_STRING <=> e.v.b = <<>>
                /\ e.v.b # <<>> =>
                      \E j \in 2 .. Len(e.enc) :
                          LET ds == SubSeq(e.enc, 2, j)
                          IN  /\ AllDigits(ds)
                              /\ Head(ds) # ZERO
                              /\ DigitsValue(ds) = Len(e.v.b)
                              /\ e.enc = <<DOLLAR>> \o ds \o CRLF \o e.v.b \o CRLF

\* C16 witness: the ten-byte bulk string was written as "$10\r\n", its data
\* and CR LF, and the empty bulk string behind it as "$-1\r\n".
C16_Witness ==
    /\ Len(sentq) = 2
    /\ sentq[1].v = BulkStringV(LongPayload)
    /\ sentq[1].enc = <<DOLLAR, ZERO + 1, ZERO>> \o CRLF \o LongPayload \o CRLF
    /\ sentq[2].v = BulkStringV(<<>>)
    /\ sentq[2].enc = NULL_BULK_STRING

(***************************************************************************)
(* Properties of the length probe SpecLength.                               *)
(***************************************************************************)
\* the number of bytes the most recent decode call consumed
Consumed == Len(last.pre) - Len(buf)

\* the most recent expect_length call and the most recent decode call were
\* made by the same codec on the same bytes
SameBytes == peek.call = last.call /\ peek.pre = last.pre

\* C12: for every buffer on which BulkString, Integer or Null decode
\* succeeds, the null bulk string "$-1\r\n" included, expect_length on the
\* same bytes returns exactly the number of bytes that decode consumes.
C12_ExpectLengthAgrees ==
    (last.call \in Codecs /\ last.kind = "Ok" /\ SameBytes)
        => (peek.kind = "Ok" /\ peek.n = Consumed)

\* the first line "$<n>\r\n" of a bulk string that declares n data bytes
BulkHead(n) == <<DOLLAR>> \o fmt_display(n) \o CRLF

\* C15: bulk-string decode succeeds only when the declared number of data
\* bytes is followed by CR LF: a buffer "$<n>\r\n", n data bytes and two
\* bytes that are not CR LF is not decoded successfully.
C15_TerminatorRequired ==
    \A n \in 0 .. MaxData :
        ( /\ last.call = "BulkString"
          /\ IsPrefix(BulkHead(n), last.pre)
          /\ Len(last.pre) >= Len(BulkHead(n)) + n + CRLF_LEN
          /\ SubSeq(last.pre, Len(BulkHead(n)) + n + 1,
                    Len(BulkHead(n)) + n + CRLF_LEN) # CRLF )
        => last.kind # "Ok"

\* C17: bulk-string decode and expect_length never panic and always return
\* a typed result (a value or an error), for every declared length up to the
\* largest machine-word value.
C17_NoPanic ==
    /\ last.call = "BulkString" => last.kind \in {"Ok", "Err"}
    /\ peek.call = "BulkString" => peek.kind \in {"Ok", "Err"}

(***************************************************************************)
(* Arrays and the dispatch layer.  Their codec follows the specification    *)
(* (sections 4.2, 4.3 and 6): '*' count CRLF, then `count` frames, each     *)
(* decoded through the dispatch on its first byte; a decode that cannot     *)
(* finish consumes nothing.  Variants whose codecs are outside the modelled *)
(* sources are never sent and have no dispatch arm here.                    *)
(***************************************************************************)
ARRAY_PREFIX == <<STAR>>

NULL_ARRAY == <<STAR, MINUS, ZERO + 1, CR, LF>>

RECURSIVE Frame_encode(_)
RECURSIVE encode_items(_)

\* the encodings of the elements, one after the other
encode_items(q) ==
    IF q = <<>> THEN <<>> ELSE Frame_encode(Head(q)) \o encode_items(Tail(q))

Frame_encode(v) ==
    IF v.t = "Array"
    THEN <<STAR>> \o fmt_display(Len(v.a)) \o CRLF \o encode_items(v.a)
    ELSE IF v.t = "NullArray" THEN NULL_ARRAY
    ELSE RespFrame_encode(v)

RECURSIVE RespFrame_decode(_, _)
RECURSIVE RespArray_decode(_, _)
RECURSIVE decode_items(_, _, _, _)

\* the element loop after one element's decode r: stop at the first element
\* that does not decode, else go on with the rest
items_next(r, n, acc, build) ==
    IF r.kind # "Ok"
    THEN [kind |-> r.kind, err |-> r.err, items |-> acc, buf |-> r.buf]
    ELSE decode_items(r.buf, n - 1, Append(acc, r.val), build)

\* decodes n frames from b; acc are the frames decoded so far
decode_items(b, n, acc, build) ==
    IF n = 0 THEN [kind |-> "Ok", err |-> "", items |-> acc, buf |-> b]
    ELSE items_next(RespFrame_decode(b, build), n, acc, build)

\* the array decode's result from its element loop's result c: an element
\* that is not complete or malformed leaves the whole buffer b
array_result(c, b) ==
    IF c.kind = "Ok" THEN Ok(RespArrayV(c.items), c.buf)
    ELSE IF c.kind = "Panic" THEN Panic(c.buf)
    ELSE Err(c.err, b)

\* the result that keeps the elements decoded so far when an element is not
\* complete (used to test C8)
array_result_Partial(c, b) ==
    IF c.kind = "Ok" \/ c.err = "NotComplete" THEN Ok(RespArrayV(c.items), c.buf)
    ELSE Err(c.err, b)

\* the array decode after its count line r was parsed
array_body(r, b, build) ==
    IF r.err # "" THEN Err(r.err, b)
    ELSE array_result(decode_items(advance(b, r.end + CRLF_LEN), r.len, <<>>, build), b)

array_body_Partial(r, b, build) ==
    IF r.err # "" THEN Err(r.err, b)
    ELSE array_result_Partial(
             decode_items(advance(b, r.end + CRLF_LEN), r.len, <<>>, build), b)

\* RespArray decode returning the elements decoded so far when an element
\* is not complete (used to test C8)
RespArray_decode_Partial(b, build) ==
    IF starts_with(b, NULL_ARRAY)
    THEN Ok(RespNullArrayV, advance(b, Len(NULL_ARRAY)))
    ELSE array_body_Partial(parse_length(b, ARRAY_PREFIX), b, build)

RespArray_decode(b, build) ==
    IF starts_with(b, NULL_ARRAY)
    THEN Ok(RespNullArrayV, advance(b, Len(NULL_ARRAY)))
    ELSE array_body(parse_length(b, ARRAY_PREFIX), b, build)

\* decode_any: the first byte selects the codec
RespFrame_decode(b, build) ==
    IF b = <<>> THEN Err("NotComplete", b)
    ELSE CASE Head(b) = DOLLAR -> BulkString_decode(b, build)
           [] Head(b) = COLON -> i64_decode(b)
           [] Head(b) = UNDERSCORE -> RespNull_decode(b)
           [] Head(b) = STAR -> RespArray_decode(b, build)
           [] OTHER -> Err("InvalidFrameType", b)

(***************************************************************************)
(* The array stream: a peer writes one array at a time, it arrives byte by  *)
(* byte, and the connection may try a decode after any byte.                *)
(***************************************************************************)
ChildValues ==
    { BulkStringV(<<97>>), BulkStringV(<<CR, LF>>), IntegerV(-1),
      RespArrayV(<<RespNullV>>) }

\* the command array of hmap.rs test_hget_from_resp_array: hget map hello
HGET_ARRAY ==
    RespArrayV(<< BulkStringV(<<104, 103, 101, 116>>),
                  BulkStringV(<<109, 97, 112>>),
                  BulkStringV(<<104, 101, 108, 108, 111>>) >>)

Arrays ==
    {RespArrayV(q) : q \in UNION {[1 .. n -> ChildValues] : n \in 0 .. MaxElems}}
    \cup {HGET_ARRAY}

SendArray(a) ==
    /\ sentq = <<>>
    /\ buf = <<>>
    /\ wire' = Frame_encode(a)
    /\ sentq' = <<[v |-> a, enc |-> Frame_encode(a)]>>
    /\ last' = LastNone
    /\ UNCHANGED <<buf, partial, peek>>
    /\ UNCHANGED cmdvars

DecodeArray ==
    \E build \in Builds : Decoded("RespArray", build, RespArray_decode(buf, build))

DecodeFrame ==
    \E build \in Builds : Decoded("RespFrame", build, RespFrame_decode(buf, build))

NextArray ==
    \/ \E a \in Arrays : SendArray(a)
    \/ Deliver
    \/ DecodeArray
    \/ DecodeFrame

SpecArray == Init /\ [][NextArray]_vars

\* C8: decoding an array of which only a proper prefix has arrived returns
\* NotComplete, never a partial array, and consumes no bytes; with all its
\* bytes present the array decodes fully to the elements that were written.
C8_ArrayAllOrNothing ==
    (last.call \in {"RespArray", "RespFrame"} /\ last.exp.v.t = "Array")
        => /\ (Len(last.pre) < Len(last.exp.enc) /\ IsPrefix(last.pre, last.exp.enc))
              => (last.kind = "Err" /\ last.err = "NotComplete" /\ buf = last.pre)
           /\ last.pre = last.exp.enc
              => ( /\ last.kind = "Ok"
                   /\ last.val = last.exp.v
                   /\ Len(last.val.a) = Len(last.exp.v.a)
                   /\ buf = <<>> )

\* C8 witness: RespArray decode decoded the whole hget command array (3
\* elements) after an earlier call on a prefix of it returned NotComplete.
C8_Witness ==
    /\ last.call = "RespArray"
    /\ last.exp.v = HGET_ARRAY
    /\ last.retry
    /\ last.kind = "Ok"
    /\ Len(last.val.a) = 3

(***************************************************************************)
(* The command layer (cmd/hmap.rs): HGet, HGetAll, HMGet and HSet executed  *)
(* on the backend's hash store.  `hmap` maps each key that has a hash to    *)
(* the map from its fields to their values (Backend::hmap, a map of maps);  *)
(* Backend::hget and Backend::hset are the store's read and write.          *)
(***************************************************************************)
\* most fields one HMGet asks for
MaxFields == 2

SimpleStringV(bytes) == [t |-> "SimpleString", b |-> bytes, i |-> 0, a |-> <<>>]

\* the canonical "+OK\r\n" reply
RESP_OK == SimpleStringV(<<79, 75>>)

\* Option<RespFrame>
None == [some |-> FALSE, val |-> NoFrame]
Some(v) == [some |-> TRUE, val |-> v]

\* Backend::hget(&self, key, field) -> Option<RespFrame>
hget(h, key, field) ==
    IF key \in DOMAIN h /\ field \in DOMAIN h[key] THEN Some(h[key][field])
    ELSE None

\* Backend::hset keeping the value a field already has (used to test C13)
hset_KeepFirst(h, key, field, value) ==
    LET inner == IF key \in DOMAIN h THEN h[key] ELSE <<>>
        inner2 == [f \in DOMAIN inner \cup {field} |->
                      IF f \in DOMAIN inner THEN inner[f] ELSE value]
    IN  [k \in DOMAIN h \cup {key} |-> IF k = key THEN inner2 ELSE h[k]]

\* Backend::hset(&self, key, field, value): the key's hash is created when it
\* is missing, and the field is inserted or overwritten
hset(h, key, field, value) ==
    LET inner == IF key \in DOMAIN h THEN h[key] ELSE <<>>
        inner2 == [f \in DOMAIN inner \cup {field} |->
                      IF f = field THEN value ELSE inner[f]]
    IN  [k \in DOMAIN h \cup {key} |-> IF k = key THEN inner2 ELSE h[k]]

\* the outcome of CommandExecutor::execute: the store after it and the reply
Executed(store, val) == [store |-> store, val |-> val]

HGet_execute(h, key, field) ==
    LET r == hget(h, key, field)
    IN  IF r.some THEN Executed(h, r.val)
        ELSE Executed(h, RespNullV)

HSet_execute(h, key, field, value) ==
    Executed(hset(h, key, field, value), RESP_OK)

\* String::cmp: the byte-wise lexicographic order of two strings
str_lt(x, y) ==
    \/ Len(x) < Len(y) /\ SubSeq(y, 1, Len(x)) = x
    \/ \E i \in 1 .. Len(x) :
          /\ i <= Len(y)
          /\ SubSeq(x, 1, i - 1) = SubSeq(y, 1, i - 1)
          /\ x[i] < y[i]

\* one step of the stable sort: pair p goes behind the pairs of `sorted`
\* whose field is not greater than its own
insert_sorted(p, sorted) ==
    LET k == Cardinality({i \in 1 .. Len(sorted) : ~str_lt(p[1], sorted[i][1])})
    IN  SubSeq(sorted, 1, k) \o <<p>> \o SubSeq(sorted, k + 1, Len(sorted))

RECURSIVE sort_by(_)
\* data.sort_by(|a, b| a.0.cmp(&b.0))
sort_by(data) ==
    IF data = <<>> THEN <<>>
    ELSE insert_sorted(data[Len(data)], sort_by(SubSeq(data, 1, Len(data) - 1)))

\* flat_map(|(k, v)| vec![BulkString::from(k).into(), v])
flat_map(data) ==
    [i \in 1 .. 2 * Len(data) |->
        IF i % 2 = 1 THEN BulkStringV(data[(i + 1) \div 2][1])
        ELSE data[i \div 2][2]]

\* HGetAll::execute looking the key up with entry(key).or_default(), which
\* creates the hash of a key that has none (used to test C20)
HGetAll_execute_CreatesHash(h, key, sort, iter) ==
    IF key \in DOMAIN h
    THEN LET data == [i \in 1 .. Len(iter) |-> <<iter[i], h[key][iter[i]]>>]
         IN  Executed(h, RespArrayV(flat_map(IF sort THEN sort_by(data) ELSE data)))
    ELSE Executed([k \in DOMAIN h \cup {key} |-> IF k = key THEN <<>> ELSE h[k]],
                  RespArrayV(<<>>))

\* HGetAll::execute replying in the iterator's order whatever `sort` says
\* (used to test C14)
HGetAll_execute_NoSort(h, key, sort, iter) ==
    IF key \in DOMAIN h
    THEN LET data == [i \in 1 .. Len(iter) |-> <<iter[i], h[key][iter[i]]>>]
         IN  Executed(h, RespArrayV(flat_map(data)))
    ELSE Executed(h, RespArrayV(<<>>))

\* `iter` is the order in which the hash's iterator yields its fields
HGetAll_execute(h, key, sort, iter) ==
    IF key \in DOMAIN h
    THEN LET data == [i \in 1 .. Len(iter) |-> <<iter[i], h[key][iter[i]]>>]
         IN  Executed(h, RespArrayV(flat_map(IF sort THEN sort_by(data) ELSE data)))
    ELSE Executed(h, RespArrayV(<<>>))

\* one element of the HMGet reply
hmget_item(r) == IF r.some THEN r.val ELSE RespNullV

\* HMGet::execute leaving out the fields that are not set (used to test C19)
HMGet_execute_SkipsMissing(h, hash, fields) ==
    LET present == SelectSeq(fields, LAMBDA f : hget(h, hash, f).some)
    IN  Executed(h, RespArrayV([i \in 1 .. Len(present) |->
                                   hget(h, hash, present[i]).val]))

HMGet_execute(h, hash, fields) ==
    Executed(h, RespArrayV([i \in 1 .. Len(fields) |->
                               hmget_item(hget(h, hash, fields[i]))]))

\* the keys, fields and values of the commands that are executed: "m", "n";
\* "a", "a1", "B"; a bulk string and an integer
Keys == {<<109>>, <<110>>}
Fields == {<<97>>, <<97, 49>>, <<66>>}
StoredValues == {BulkStringV(<<119>>), IntegerV(1)}

FieldLists == UNION {[1 .. n -> Fields] : n \in 0 .. MaxFields}

\* the orders in which an iterator may yield the elements of S
Orders(S) ==
    {q \in [1 .. Cardinality(S) -> S] :
        \A i, j \in 1 .. Cardinality(S) : i # j => q[i] # q[j]}

\* one command executed on the backend; r is its outcome
Exec(cmd, key, fields, sort, arg, r) ==
    /\ hmap' = r.store
    /\ reply' = [cmd |-> cmd, key |-> key, fields |-> fields, sort |-> sort,
                 arg |-> arg, pre |-> hmap, kind |-> "Ok", err |-> "",
                 val |-> r.val]
    /\ UNCHANGED <<buf, wire, sentq, last, partial, peek>>

\* `hist` keeps, for each (key, field) an HSet has named, the value of the
\* most recent one
ExecHSet(k, f, v) ==
    /\ Exec("HSet", k, <<f>>, FALSE, v, HSet_execute(hmap, k, f, v))
    /\ hist' = [p \in DOMAIN hist \cup {<<k, f>>} |->
                   IF p = <<k, f>> THEN v ELSE hist[p]]

ExecHGet(k, f) ==
    /\ Exec("HGet", k, <<f>>, FALSE, NoFrame, HGet_execute(hmap, k, f))
    /\ UNCHANGED hist

ExecHGetAll(k, sort) ==
    /\ \E iter \in Orders(IF k \in DOMAIN hmap THEN DOMAIN hmap[k] ELSE {}) :
          Exec("HGetAll", k, <<>>, sort, NoFrame, HGetAll_execute(hmap, k, sort, iter))
    /\ UNCHANGED hist

ExecHMGet(k, fs) ==
    /\ Exec("HMGet", k, fs, FALSE, NoFrame, HMGet_execute(hmap, k, fs))
    /\ UNCHANGED hist

NextCmd ==
    \/ \E k \in Keys, f \in Fields, v \in StoredValues : ExecHSet(k, f, v)
    \/ \E k \in Keys, f \in Fields : ExecHGet(k, f)
    \/ \E k \in Keys, sort \in BOOLEAN : ExecHGetAll(k, sort)
    \/ \E k \in Keys, fs \in FieldLists : ExecHMGet(k, fs)

SpecCmd == Init /\ [][NextCmd]_vars

\* C13: HGet(key, field) replies with the value of the most recent HSet for
\* that (key, field), and with the Null frame when no HSet was executed for
\* it; every HSet replies with the OK frame.
C13_HGetReadsLastHSet ==
    /\ reply.cmd = "HGet"
         => reply.val = (IF <<reply.key, reply.fields[1]>> \in DOMAIN hist
                         THEN hist[<<reply.key, reply.fields[1]>>]
                         ELSE RespNullV)
    /\ reply.cmd = "HSet" => reply.val = RESP_OK

\* C13 witness: HGet of field "a" under key "m" replied with the integer an
\* HSet had stored, while field "a1" of the same key holds a bulk string and
\* key "n" has no hash.
C13_Witness ==
    /\ reply.cmd = "HGet"
    /\ reply.key = <<109>>
    /\ reply.fields = <<<<97>>>>
    /\ reply.val = IntegerV(1)
    /\ hist[<<<<109>>, <<97>>>>] = IntegerV(1)
    /\ hget(hmap, <<109>>, <<97, 49>>) = Some(BulkStringV(<<119>>))
    /\ <<110>> \notin DOMAIN hmap

\* C14: HGetAll with sort enabled replies with a flat array that holds
\* exactly one pair for each field set under the key, the field as a
\* BulkString followed by its current value, the pairs in ascending order of
\* field name; for a key that has no hash it replies with an empty array.
C14_HGetAllSorted ==
    (reply.cmd = "HGetAll" /\ reply.sort) =>
        IF reply.key \notin DOMAIN hmap THEN reply.val = RespArrayV(<<>>)
        ELSE LET a == reply.val.a
                 n == Cardinality(DOMAIN hmap[reply.key])
             IN  /\ reply.val.t = "Array"
                 /\ Len(a) = 2 * n
                 /\ {a[2 * i - 1].b : i \in 1 .. n} = DOMAIN hmap[reply.key]
                 /\ \A i \in 1 .. n :
                       /\ a[2 * i - 1].t = "BulkString"
                       /\ a[2 * i] = hmap[reply.key][a[2 * i - 1].b]
                 /\ \A i \in 1 .. n - 1 : str_lt(a[2 * i - 1].b, a[2 * i + 1].b)

\* C14 witness: HGetAll with sort replied with the three fields "B", "a",
\* "a1" of key "m" in that order, each followed by its value.
C14_Witness ==
    /\ reply.cmd = "HGetAll"
    /\ reply.sort
    /\ reply.key = <<109>>
    /\ Len(reply.val.a) = 6
    /\ <<reply.val.a[1].b, reply.val.a[3].b, reply.val.a[5].b>>
          = <<<<66>>, <<97>>, <<97, 49>>>>
    /\ reply.val.a[2] = IntegerV(1)
    /\ reply.val.a[4] = BulkStringV(<<119>>)

\* C19: HMGet replies with an array that has exactly as many elements as
\* fields were requested, in the order requested (duplicates included),
\* element i being the value currently stored for field i under the hash,
\* or the Null frame when that field or the hash is absent.
C19_HMGetReply ==
    reply.cmd = "HMGet" =>
        /\ reply.val.t = "Array"
        /\ Len(reply.val.a) = Len(reply.fields)
        /\ \A i \in 1 .. Len(reply.fields) :
              reply.val.a[i] =
                  (IF reply.key \in DOMAIN hmap
                      /\ reply.fields[i] \in DOMAIN hmap[reply.key]
                   THEN hmap[reply.key][reply.fields[i]]
                   ELSE RespNullV)

\* C19 witness: HMGet of the fields "B", "a" under key "m", of which only
\* "a" is set, replied with [Null, 1].
C19_Witness ==
    /\ reply.cmd = "HMGet"
    /\ reply.key = <<109>>
    /\ reply.fields = <<<<66>>, <<97>>>>
    /\ ~hget(hmap, <<109>>, <<66>>).some
    /\ reply.val = RespArrayV(<<RespNullV, IntegerV(1)>>)

\* C20: executing HGet, HMGet or HGetAll leaves the backend store unchanged,
\* also for a key or field that does not exist (no empty hash is created by
\* a read); only HSet changes the store, and an HSet changes only the
\* (key, field) it names.
C20_OnlyHSetWrites ==
    /\ reply.cmd \in {"HGet", "HMGet", "HGetAll"} => hmap = reply.pre
    /\ \A k \in DOMAIN hmap : DOMAIN hmap[k] # {}
    /\ reply.cmd = "HSet" =>
          /\ DOMAIN hmap = DOMAIN reply.pre \cup {reply.key}
          /\ hmap[reply.key][reply.fields[1]] = reply.arg
          /\ \A k \in Keys, f \in Fields :
                <<k, f>> # <<reply.key, reply.fields[1]>>
                    => hget(hmap, k, f) = hget(reply.pre, k, f)

\* C20 witness: HGetAll was executed for key "n", which has no hash, while
\* key "m" has one; the store still has no hash for "n".
C20_Witness ==
    /\ reply.cmd = "HGetAll"
    /\ reply.key = <<110>>
    /\ reply.val = RespArrayV(<<>>)
    /\ DOMAIN hmap = {<<109>>}
    /\ hmap = reply.pre

(***************************************************************************)
(* Parsing a command from a decoded array (TryFrom<RespArray> for HMGet).   *)
(***************************************************************************)
\* most elements of an array that is parsed
MaxArgs == 4

\* the command name "hmget"
HMGET_NAME == <<104, 109, 103, 101, 116>>

\* [u8]::to_ascii_lowercase
to_ascii_lowercase(b) ==
    [k \in DOMAIN b |-> IF b[k] >= 65 /\ b[k] <= 90 THEN b[k] + 32 ELSE b[k]]

\* String::from_utf8 succeeds: exact for the bytes of the model, which are
\* ASCII (below 128) or 255, a byte no UTF-8 text contains
is_utf8(b) == \A k \in DOMAIN b : b[k] < 128

\* validate_command(value, names, n_args): the array has n_args elements
\* besides the names, and its leading elements are bulk strings that equal
\* the names when lower-cased; "" is Ok(())
validate_command(value, names, n_args) ==
    IF Len(value.a) # n_args + Len(names) THEN "InvalidArgument"
    ELSE IF \E k \in 1 .. Len(names) :
                \/ value.a[k].t # "BulkString"
                \/ to_ascii_lowercase(value.a[k].b) # names[k]
         THEN "InvalidCommand"
    ELSE ""

\* extract_args(value, start): the elements behind the first `start`
extract_args(value, start) == SubSeq(value.a, start + 1, Len(value.a))

\* Result<HMGet, CommandError>
Parsed(hash, fields) == [kind |-> "Ok", err |-> "", hash |-> hash, fields |-> fields]
Rejected(e) == [kind |-> "Err", err |-> e, hash |-> <<>>, fields |-> <<>>]

\* the loop over the field arguments: `bad` holds the positions at which it
\* returns an error, and it returns at the first of them
hmget_fields(hash, args) ==
    LET bad == {k \in 2 .. Len(args) :
                    args[k].t # "BulkString" \/ ~is_utf8(args[k].b)}
        first == CHOOSE k \in bad : \A j \in bad : k <= j
    IN  IF bad = {} THEN Parsed(hash, [k \in 1 .. Len(args) - 1 |-> args[k + 1].b])
        ELSE IF args[first].t # "BulkString" THEN Rejected("InvalidArgument")
        ELSE Rejected("Utf8Error")

\* HMGet::try_from ending the field list at the first argument that is not a
\* bulk string instead of rejecting the command (used to test C18)
HMGet_try_from_StopsAtNonBulk(value) ==
    LET len == Len(value.a)
    IN  IF len = 0 THEN Rejected("InvalidCommand")
        ELSE IF len <= 2 THEN Rejected("InvalidCommand")
        ELSE LET v == validate_command(value, <<HMGET_NAME>>, len - 1)
                 args == extract_args(value, 1)
                 stop == {k \in 2 .. Len(args) : args[k].t # "BulkString"}
                 n == IF stop = {} THEN Len(args)
                      ELSE (CHOOSE k \in stop : \A j \in stop : k <= j) - 1
             IN  IF v # "" THEN Rejected(v)
                 ELSE IF args[1].t # "BulkString" THEN Rejected("InvalidArgument")
                 ELSE IF ~is_utf8(args[1].b) THEN Rejected("Utf8Error")
                 ELSE hmget_fields(args[1].b, SubSeq(args, 1, n))

HMGet_try_from(value) ==
    LET len == Len(value.a)
    IN  IF len = 0 THEN Rejected("InvalidCommand")
        ELSE IF len <= 2 THEN Rejected("InvalidCommand")
        ELSE LET v == validate_command(value, <<HMGET_NAME>>, len - 1)
                 args == extract_args(value, 1)
             IN  IF v # "" THEN Rejected(v)
                 ELSE IF args[1].t # "BulkString" THEN Rejected("InvalidArgument")
                 ELSE IF ~is_utf8(args[1].b) THEN Rejected("Utf8Error")
                 ELSE hmget_fields(args[1].b, args)

\* the elements of the arrays that are parsed: "hmget", "HMGET", "hget",
\* "m", "a", a bulk string that is not UTF-8, and an integer
ArgFrames ==
    { BulkStringV(HMGET_NAME), BulkStringV(<<72, 77, 71, 69, 84>>),
      BulkStringV(<<104, 103, 101, 116>>), BulkStringV(<<109>>),
      BulkStringV(<<97>>), BulkStringV(<<255>>), IntegerV(1) }

\* the elements of the array that the connection has decoded and not yet
\* handed to a command parser
pending == IF reply.cmd = "array" THEN reply.arg.a ELSE <<>>

\* the connection decodes one more element of the array
DecodeArg(f) ==
    /\ Len(pending) < MaxArgs
    /\ reply' = [ReplyNone EXCEPT !.cmd = "array",
                                  !.arg = RespArrayV(Append(pending, f))]
    /\ UNCHANGED <<buf, wire, sentq, last, partial, peek, hmap, hist>>

\* the connection hands the decoded array to HMGet::try_from
ParseHMGet ==
    LET value == RespArrayV(pending)
        r == HMGet_try_from(value)
    IN  /\ reply' = [cmd |-> "HMGet::try_from", key |-> r.hash, fields |-> r.fields,
                     sort |-> FALSE, arg |-> value, pre |-> hmap, kind |-> r.kind,
                     err |-> r.err, val |-> NoFrame]
        /\ UNCHANGED <<buf, wire, sentq, last, partial, peek, hmap, hist>>

NextParse ==
    \/ \E f \in ArgFrames : DecodeArg(f)
    \/ ParseHMGet

SpecParse == Init /\ [][NextParse]_vars

\* the array's first element is the command name in lower or upper case
NamesHMGet(a) ==
    a[1] \in {BulkStringV(HMGET_NAME), BulkStringV(<<72, 77, 71, 69, 84>>)}

\* the arguments of the array: its elements behind the command name
ArgsOf(a) == 2 .. Len(a)

\* C18 (as claimed): an array of 0, 1 or 2 elements is rejected with
\* InvalidCommand; an array of 3 or more elements whose first element is the
\* command name in any letter case and whose other elements are all bulk
\* strings yields hash = the 2nd element and fields = the remaining elements
\* in order; a non-bulk-string argument is rejected with InvalidArgument.
C18_HMGetParse ==
    reply.cmd = "HMGet::try_from" =>
        LET a == reply.arg.a
        IN  /\ Len(a) <= 2 => (reply.kind = "Err" /\ reply.err = "InvalidCommand")
            /\ ( /\ Len(a) >= 3
                 /\ NamesHMGet(a)
                 /\ \A k \in ArgsOf(a) : a[k].t = "BulkString" )
               => ( /\ reply.kind = "Ok"
                    /\ reply.key = a[2].b
                    /\ reply.fields = [k \in 1 .. Len(a) - 2 |-> a[k + 2].b] )
            /\ ( /\ Len(a) >= 3
                 /\ NamesHMGet(a)
                 /\ \E k \in ArgsOf(a) : a[k].t # "BulkString" )
               => (reply.kind = "Err" /\ reply.err = "InvalidArgument")

\* the argument at position k is one the parser rejects
BadArg(a, k) == a[k].t # "BulkString" \/ ~is_utf8(a[k].b)

\* C18 (amended): as claimed, with the arguments required to be bulk strings
\* of valid UTF-8: the array is parsed when every argument is one, and
\* otherwise the first argument that is not decides the error, InvalidArgument
\* when it is not a bulk string and the UTF-8 conversion error when it is a
\* bulk string that is not UTF-8.
C18_HMGetParseUtf8 ==
    reply.cmd = "HMGet::try_from" =>
        LET a == reply.arg.a
        IN  /\ Len(a) <= 2 => (reply.kind = "Err" /\ reply.err = "InvalidCommand")
            /\ ( /\ Len(a) >= 3
                 /\ NamesHMGet(a)
                 /\ \A k \in ArgsOf(a) : ~BadArg(a, k) )
               => ( /\ reply.kind = "Ok"
                    /\ reply.key = a[2].b
                    /\ reply.fields = [k \in 1 .. Len(a) - 2 |-> a[k + 2].b] )
            /\ \A k \in ArgsOf(a) :
                  ( /\ Len(a) >= 3
                    /\ NamesHMGet(a)
                    /\ BadArg(a, k)
                    /\ \A j \in ArgsOf(a) : j < k => ~BadArg(a, j) )
                  => ( /\ reply.kind = "Err"
                       /\ reply.err = (IF a[k].t # "BulkString"
                                       THEN "InvalidArgument" ELSE "Utf8Error") )

\* C18 witness: the array ["HMGET", "m", "a", "m"] was parsed to hash "m" and
\* fields "a", "m".
C18_Witness ==
    /\ reply.cmd = "HMGet::try_from"
    /\ Len(reply.arg.a) = 4
    /\ reply.arg.a[1] = BulkStringV(<<72, 77, 71, 69, 84>>)
    /\ reply.kind = "Ok"
    /\ reply.key = <<109>>
    /\ reply.fields = <<<<97>>, <<109>>>>

====
